---- MODULE Spec2Model ----
(***************************************************************************)
(* dc.geoChoroplethChart (src/src/geo-choropleth-chart.js) as a state      *)
(* machine: the layer registry (_geoJsons), the render state               *)
(* (_hasBeenRendered, _chart._projectionFlag, the projection of _geoPath), *)
(* the drawing (the svg's layer groups and region elements), the popup and *)
(* the filter collaborator, with one action per public operation or event  *)
(* handler of the chart.                                                   *)
(*                                                                         *)
(* JavaScript values.  A value that can be undefined is a record           *)
(* [def |-> BOOLEAN, ...]; arrays are sequences and array/object identity  *)
(* is kept in a small heap (arrays, objs), because geoJsons() hands out    *)
(* the registry array itself and removeGeoJson() replaces it.  An          *)
(* exception is a handler that stops where the code throws: the effects    *)
(* made before the throw stay, and lastCall.raised records it.             *)
(***************************************************************************)
EXTENDS Integers, Sequences, FiniteSets, TLC

(***************************************************************************)
(* Bounds of the inputs.                                                   *)
(***************************************************************************)
\* longest sequence of aggregation rows handed to render/redraw
MaxRows == 1
\* most keys the filter collaborator holds at once
MaxFilters == 1
\* most calls made on one chart
MaxCalls == 5

\* aggregation values: zero and a number that is not zero
Values == {0, 7}

\* layer names offered to overlayGeoJson / removeGeoJson
LayerNames == {"state", "county"}

\* keyAccessor arguments: absent, or one of two accessor functions
\* (d.properties.name, d.properties.region); "notCallable" is a truthy
\* value that is not a function
Undefined == "undefined"
NotCallable == "notCallable"

\* keys of the aggregation rows
RowKeys == {"CA"}

\* the rows of an aggregation engine, of which several can have the same key
MaxJoinRows == 3
JoinRows ==
    UNION {[1..n -> [key : {"CA", "TX"}, value : {1, 2, 3}]] : n \in 0..MaxJoinRows}

(***************************************************************************)
(* Numbers of the bounds computation.  The sentinels of findGeomMinMax     *)
(* (9999999999999) do not fit TLC's 32-bit integers, so a number n of the  *)
(* bounds is the pair <<hi, lo>> with n = hi * 10^6 + lo, hi and lo of the *)
(* same sign and |lo| < 10^6; pairs are compared as the numbers are.       *)
(***************************************************************************)
SentinelHi == 9999999
SentinelLo == 999999
Num(x) == <<0, x>>
Neg(n) == <<0 - n[1], 0 - n[2]>>
Lt(a, b) == a[1] < b[1] \/ (a[1] = b[1] /\ a[2] < b[2])
Gt(a, b) == Lt(b, a)
Sentinel == <<SentinelHi, SentinelLo>>

(***************************************************************************)
(* GeoJSON features: properties for the key accessors and one ring of      *)
(* [x, y] points (geometry.coordinates; def = FALSE when it is absent).    *)
(***************************************************************************)
Feature(name, region, ring) ==
    [properties |-> [name |-> name, region |-> region],
     geometry |-> [coordinates |-> [def |-> TRUE, v |-> <<ring>>]]]

FeatCA == Feature("CA", "W", << <<0, 0>>, <<10, 5>> >>)
FeatNV == Feature("NV", "W", << <<8, 2>>, <<14, 9>> >>)
FeatTX == Feature("TX", "S", << <<20, -3>>, <<31, 6>> >>)

\* feature collections offered to overlayGeoJson; in the second one both
\* features have the same key under the "region" accessor
JsonStates == <<FeatCA, FeatTX>>
JsonWest == <<FeatCA, FeatNV>>

\* the calls of overlayGeoJson(json, name, keyAccessor) made on the chart: a
\* data layer, the same name with other features and another accessor, a
\* layer without keyAccessor, and that name as a data layer
Overlays ==
    {[json |-> JsonStates, name |-> "state", keyAccessor |-> "name"],
     [json |-> JsonWest, name |-> "state", keyAccessor |-> "region"],
     [json |-> JsonStates, name |-> "county", keyAccessor |-> Undefined],
     [json |-> JsonWest, name |-> "county", keyAccessor |-> "name"]}

\* most features of a feature collection handed to the bounds computation
MaxFeatures == 2

\* geometry.coordinates of a feature: absent, without ring, one ring of two
\* points, one ring of one point, two rings, one ring without point
GeoCoordinates ==
    {[def |-> FALSE, v |-> <<>>],
     [def |-> TRUE, v |-> <<>>],
     [def |-> TRUE, v |-> << << <<0, 0>>, <<10, 5>> >> >>],
     [def |-> TRUE, v |-> << << <<-3, 7>> >> >>],
     [def |-> TRUE, v |-> << << <<10, 5>> >>, << <<4, -2>>, <<0, 0>> >> >>],
     [def |-> TRUE, v |-> << <<>> >>]}

GeoFeatures ==
    {[properties |-> [name |-> "CA", region |-> "W"],
      geometry |-> [coordinates |-> c]] : c \in GeoCoordinates}

\* the feature collections whose bounds are computed
GeoJsons == UNION {[1..n -> GeoFeatures] : n \in 0..MaxFeatures}

\* the calls of overlayGeoJson with a keyAccessor that is no function
BadAccessorOverlays ==
    {[json |-> JsonStates, name |-> "state", keyAccessor |-> NotCallable]}

\* calling a layer's keyAccessor on a feature
ApplyAccessor(acc, d) ==
    IF acc = "name" THEN d.properties.name ELSE d.properties.region

Callable(acc) == acc \in {"name", "region"}
\* JavaScript truthiness of a keyAccessor value
TruthyAccessor(acc) == acc # Undefined

VARIABLES
    objs,             \* heap: layer objects {name, data, keyAccessor, bounds}
    arrays,           \* heap: arrays of layer objects
    _geoJsons,        \* var _geoJsons: the array the registry is
    held,             \* the array a caller got from geoJsons(), 0 = none
    _hasBeenRendered, \* var _hasBeenRendered
    _projectionFlag,  \* _chart._projectionFlag: "undefined", "true", "false"
    _useMap,          \* var _useMap
    projection,       \* the projection of _geoPath
    svg,              \* the drawing: layer groups of region elements
    popup,            \* the popup container
    _filters,         \* filter collaborator: the active filter set
    _filtersInverse,  \* filter collaborator: the inverse flag
    currentJoin,      \* the key->value lookup of the last completed pass
    pathCalls,        \* probe: regions whose path the last call computed
    lastCall,         \* the last call made on the chart and how it ended
    calls,            \* the number of calls made on the chart
    group             \* the rows the aggregation engine holds for the chart

vars == <<objs, arrays, _geoJsons, held, _hasBeenRendered, _projectionFlag,
          _useMap, projection, svg, popup, _filters, _filtersInverse,
          currentJoin, pathCalls, lastCall, calls, group>>

(***************************************************************************)
(* The heap.  Three array identities are enough: the registry's, the one a *)
(* caller holds, and a fresh one for removeGeoJson.  An array or object    *)
(* nothing refers to is reset, so that equal heaps are equal states.       *)
(***************************************************************************)
ArrayIds == 1..3
ObjIds == 1..(2 * Cardinality(LayerNames))

NoLayer == [name |-> "", data |-> <<>>, keyAccessor |-> Undefined,
            bounds |-> [def |-> FALSE, v |-> <<>>]]

Range(s) == {s[i] : i \in DOMAIN s}
Min(S) == CHOOSE x \in S : \A y \in S : x <= y
Max(S) == CHOOSE x \in S : \A y \in S : x >= y

\* the array and object identities still referred to
LiveArrays(reg, h) == {reg} \cup ({h} \ {0})
LiveObjs(arrs, reg, h) == UNION {Range(arrs[a]) : a \in LiveArrays(reg, h)}

Collect(arrs, reg, h) ==
    [a \in ArrayIds |-> IF a \in LiveArrays(reg, h) THEN arrs[a] ELSE <<>>]
CollectObjs(os, arrs, reg, h) ==
    [o \in ObjIds |-> IF o \in LiveObjs(arrs, reg, h) THEN os[o] ELSE NoLayer]

NewArray == Min(ArrayIds \ LiveArrays(_geoJsons, held))
NewObj == Min(ObjIds \ LiveObjs(arrays, _geoJsons, held))

\* the registry as a sequence of layer records
Registry == [i \in DOMAIN arrays[_geoJsons] |-> objs[arrays[_geoJsons][i]]]
\* _geoJsons.length
Length == Len(arrays[_geoJsons])
\* function geoJson (index), index from 0; the caller guards index < Length
geoJson(index) == objs[arrays[_geoJsons][index + 1]]
HasLayer(index) == index >= 0 /\ index < Length

(***************************************************************************)
(* function findGeomMinMax (layerIndex): the running minimum and maximum   *)
(* of both axes over every point of every ring of every feature of the     *)
(* layer's data.  Reading .length of absent coordinates throws.            *)
(***************************************************************************)
\* mutant: the maximum is compared only when the minimum was not replaced
\* (else if)
ScanCoordElseIf(b, coord) ==
    [xMin |-> IF Lt(Num(coord[1]), b.xMin) THEN Num(coord[1]) ELSE b.xMin,
     xMax |-> IF ~Lt(Num(coord[1]), b.xMin) /\ Gt(Num(coord[1]), b.xMax)
              THEN Num(coord[1]) ELSE b.xMax,
     yMin |-> IF Lt(Num(coord[2]), b.yMin) THEN Num(coord[2]) ELSE b.yMin,
     yMax |-> IF ~Lt(Num(coord[2]), b.yMin) /\ Gt(Num(coord[2]), b.yMax)
              THEN Num(coord[2]) ELSE b.yMax]

ScanCoord(b, coord) ==
    [xMin |-> IF Lt(Num(coord[1]), b.xMin) THEN Num(coord[1]) ELSE b.xMin,
     xMax |-> IF Gt(Num(coord[1]), b.xMax) THEN Num(coord[1]) ELSE b.xMax,
     yMin |-> IF Lt(Num(coord[2]), b.yMin) THEN Num(coord[2]) ELSE b.yMin,
     yMax |-> IF Gt(Num(coord[2]), b.yMax) THEN Num(coord[2]) ELSE b.yMax]

RECURSIVE ScanCoords(_, _, _)
ScanCoords(b, coords, c) ==
    IF c > Len(coords) THEN b
    ELSE ScanCoords(ScanCoord(b, coords[c]), coords, c + 1)

RECURSIVE ScanGeom(_, _, _)
ScanGeom(b, geom, g) ==
    IF g > Len(geom) THEN b
    ELSE ScanGeom(ScanCoords(b, geom[g], 1), geom, g + 1)

RECURSIVE ScanData(_, _, _)
ScanData(b, data, d) ==
    IF d > Len(data) THEN [raised |-> FALSE, b |-> b]
    ELSE IF ~data[d].geometry.coordinates.def THEN [raised |-> TRUE, b |-> b]
    ELSE ScanData(ScanGeom(b, data[d].geometry.coordinates.v, 1), data, d + 1)

findGeomMinMax(data) ==
    LET r == ScanData([xMin |-> Sentinel, xMax |-> Neg(Sentinel),
                       yMin |-> Sentinel, yMax |-> Neg(Sentinel)], data, 1)
    IN  [raised |-> r.raised,
         bounds |-> IF r.raised THEN [def |-> FALSE, v |-> <<>>]
                    ELSE [def |-> TRUE,
                          v |-> << <<r.b.xMin, r.b.yMin>>, <<r.b.xMax, r.b.yMax>> >>]]

(***************************************************************************)
(* The record of the last call: the operation and whether it threw.  Every *)
(* call is counted, and the chart receives at most MaxCalls calls.         *)
(***************************************************************************)
Call(op, raised) == [op |-> op, raised |-> raised, out |-> <<>>]
\* a call that hands `out` to a collaborator
CallOut(op, out) == [op |-> op, raised |-> FALSE, out |-> out]

Counted == calls < MaxCalls /\ calls' = calls + 1 /\ UNCHANGED group

(***************************************************************************)
(* _chart.overlayGeoJson = function (json, name, keyAccessor)              *)
(***************************************************************************)
\* the indexes (from 0) of the layers called name
IndexesOf(name) == {i \in 0..(Length - 1) : geoJson(i).name = name}

\* overlayGeoJson with `found` the indexes at which its loop meets the name
Overlay(json, name, keyAccessor, found) ==
    /\ Counted
    /\ IF found # {}
       THEN LET o == arrays[_geoJsons][Min(found) + 1]
            IN  /\ objs' = [objs EXCEPT ![o].data = json,
                                        ![o].keyAccessor = keyAccessor]
                /\ arrays' = arrays
                /\ lastCall' = Call("overlayGeoJson", FALSE)
       ELSE LET o == NewObj
                m == findGeomMinMax(json)
            IN  /\ objs' = [objs EXCEPT ![o] =
                               [name |-> name, data |-> json,
                                keyAccessor |-> keyAccessor, bounds |-> m.bounds]]
                /\ arrays' = [arrays EXCEPT ![_geoJsons] = Append(@, o)]
                /\ lastCall' = Call("overlayGeoJson", m.raised)
    /\ pathCalls' = {}
    /\ UNCHANGED <<_geoJsons, held, _hasBeenRendered, _projectionFlag, _useMap,
                   projection, svg, popup, _filters, _filtersInverse, currentJoin>>

\* mutant: the bounds are computed again when a registered name is overlaid
overlayGeoJsonNewBounds(json, name, keyAccessor) ==
    /\ Counted
    /\ LET found == IndexesOf(name)
           o == IF found # {} THEN arrays[_geoJsons][Min(found) + 1] ELSE NewObj
           m == findGeomMinMax(json)
       IN  /\ objs' = [objs EXCEPT ![o] =
                          [name |-> name, data |-> json,
                           keyAccessor |-> keyAccessor, bounds |-> m.bounds]]
           /\ arrays' = IF found # {} THEN arrays
                        ELSE [arrays EXCEPT ![_geoJsons] = Append(@, o)]
           /\ lastCall' = Call("overlayGeoJson", m.raised)
    /\ pathCalls' = {}
    /\ UNCHANGED <<_geoJsons, held, _hasBeenRendered, _projectionFlag, _useMap,
                   projection, svg, popup, _filters, _filtersInverse, currentJoin>>

\* mutant: the loop stops one layer early (i < _geoJsons.length - 1)
overlayGeoJsonOffByOne(json, name, keyAccessor) ==
    Overlay(json, name, keyAccessor, IndexesOf(name) \ {Length - 1})

overlayGeoJson(json, name, keyAccessor) ==
    Overlay(json, name, keyAccessor, IndexesOf(name))

(***************************************************************************)
(* _chart.removeGeoJson = function (name): the layers not called name are  *)
(* pushed onto a new array, and the new array becomes the registry.        *)
(***************************************************************************)
RECURSIVE KeepOthers(_, _, _)
KeepOthers(arr, name, i) ==
    IF i > Len(arr) THEN <<>>
    ELSE IF objs[arr[i]].name # name
         THEN <<arr[i]>> \o KeepOthers(arr, name, i + 1)
         ELSE KeepOthers(arr, name, i + 1)

\* removeGeoJson with `kept` the array its loop builds
Remove(name, kept) ==
    /\ Counted
    /\ LET a == NewArray
           arrs == [arrays EXCEPT ![a] = kept]
       IN  /\ _geoJsons' = a
           /\ arrays' = Collect(arrs, a, held)
           /\ objs' = CollectObjs(objs, arrs, a, held)
           /\ lastCall' = Call("removeGeoJson", FALSE)
           /\ pathCalls' = {}
           /\ UNCHANGED <<held, _hasBeenRendered, _projectionFlag, _useMap,
                          projection, svg, popup, _filters, _filtersInverse,
                          currentJoin>>

\* mutant: the loop ends at the layer called name (break for the skipped push)
RECURSIVE KeepBefore(_, _, _)
KeepBefore(arr, name, i) ==
    IF i > Len(arr) \/ objs[arr[i]].name = name THEN <<>>
    ELSE <<arr[i]>> \o KeepBefore(arr, name, i + 1)

removeGeoJsonBreak(name) == Remove(name, KeepBefore(arrays[_geoJsons], name, 1))

removeGeoJson(name) == Remove(name, KeepOthers(arrays[_geoJsons], name, 1))

(***************************************************************************)
(* _chart.geoJsons = function (): the caller now holds the registry array. *)
(***************************************************************************)
geoJsons ==
    /\ Counted
    /\ held' = _geoJsons
    /\ arrays' = Collect(arrays, _geoJsons, _geoJsons)
    /\ objs' = CollectObjs(objs, arrays, _geoJsons, _geoJsons)
    /\ lastCall' = Call("geoJsons", FALSE)
    /\ pathCalls' = {}
    /\ UNCHANGED <<_geoJsons, _hasBeenRendered, _projectionFlag, _useMap,
                   projection, svg, popup, _filters, _filtersInverse,
                   currentJoin>>

\* the caller modifies the array it holds: chart.geoJsons().pop()
heldPop ==
    /\ Counted
    /\ held # 0
    /\ arrays[held] # <<>>
    /\ LET arrs == [arrays EXCEPT ![held] = SubSeq(@, 1, Len(@) - 1)]
       IN  /\ arrays' = arrs
           /\ objs' = CollectObjs(objs, arrs, _geoJsons, held)
    /\ lastCall' = Call("pop", FALSE)
    /\ pathCalls' = {}
    /\ UNCHANGED <<_geoJsons, held, _hasBeenRendered, _projectionFlag, _useMap,
                   projection, svg, popup, _filters, _filtersInverse,
                   currentJoin>>

(***************************************************************************)
(* JavaScript booleans and numbers, as far as isSelected needs them:       *)
(* a && b yields a when a is falsy and b otherwise, ^ converts both        *)
(* operands to 32-bit integers (false -> 0, true -> 1) and yields a        *)
(* number, ! yields a boolean.                                             *)
(***************************************************************************)
JsBool(b) == [type |-> "boolean", n |-> IF b THEN 1 ELSE 0]
JsNumber(n) == [type |-> "number", n |-> n]
Truthy(v) == v.n # 0
JsAnd(a, b) == IF Truthy(a) THEN b ELSE a
JsXor(a, b) == JsNumber((a.n + b.n) % 2)
JsNot(a) == JsBool(~Truthy(a))

(***************************************************************************)
(* The filter collaborator (dc.baseMixin): hasFilter(), hasFilter(key),    *)
(* filtersInverse() and handleFilterClick(event, key), which toggles key   *)
(* in the filter set.                                                      *)
(***************************************************************************)
hasFilter == JsBool(_filters # {})
hasFilterKey(key) == JsBool(key \in _filters)
filtersInverse == JsBool(_filtersInverse)
handleFilterClick(key) ==
    IF key \in _filters THEN _filters \ {key} ELSE _filters \cup {key}

\* function getKey (layerIndex, d)
getKey(layerIndex, d) == ApplyAccessor(geoJson(layerIndex).keyAccessor, d)

\* mutant: && applied before ^
isSelectedValueAndFirst(hf, hfk, inv) == JsXor(JsAnd(hf, hfk), inv)

\* function isSelected (layerIndex, d), on what its three calls return:
\*   hasFilter() && hasFilter(key) ^ filtersInverse(), where ^ binds tighter
isSelectedValue(hf, hfk, inv) == JsAnd(hf, JsXor(hfk, inv))
isSelectedKey(key) == isSelectedValue(hasFilter, hasFilterKey(key), filtersInverse)
isSelected(layerIndex, d) == isSelectedKey(getKey(layerIndex, d))

\* function isDeselected (layerIndex, d): hasFilter() && !isSelected(...)
isDeselectedValue(hf, hfk, inv) == JsAnd(hf, JsNot(isSelectedValue(hf, hfk, inv)))
isDeselectedKey(key) ==
    isDeselectedValue(hasFilter, hasFilterKey(key), filtersInverse)
isDeselected(layerIndex, d) == isDeselectedKey(getKey(layerIndex, d))

(***************************************************************************)
(* The aggregation rows and the chart's accessors (dc.baseMixin,           *)
(* dc.colorMixin).  A row is [key, value]; the argument of _doRender and   *)
(* _doRedraw is [def |-> TRUE, rows |-> ...], or undefined.                *)
(***************************************************************************)
Rows == UNION {[1..n -> [key : RowKeys, value : Values]] : n \in 0..MaxRows}
Defined(rows) == [def |-> TRUE, rows |-> rows]
NoRows == [def |-> FALSE, rows |-> <<>>]

keyAccessor(row) == row.key
valueAccessor(row) == row.value

\* function generateLayeredData (d): data[key] = value, row after row.
\* Reading .length of undefined throws.
\* mutant: a key that is already in data keeps its value
RECURSIVE LayeredDataKeepFirst(_, _, _)
LayeredDataKeepFirst(data, groupAll, i) ==
    IF i > Len(groupAll) THEN data
    ELSE LET k == keyAccessor(groupAll[i])
             v == valueAccessor(groupAll[i])
         IN  LayeredDataKeepFirst([x \in DOMAIN data \cup {k} |->
                                      IF x \in DOMAIN data THEN data[x] ELSE v],
                                  groupAll, i + 1)

RECURSIVE LayeredData(_, _, _)
LayeredData(data, groupAll, i) ==
    IF i > Len(groupAll) THEN data
    ELSE LET k == keyAccessor(groupAll[i])
             v == valueAccessor(groupAll[i])
         IN  LayeredData([x \in DOMAIN data \cup {k} |->
                             IF x = k THEN v ELSE data[x]], groupAll, i + 1)

generateLayeredData(d) ==
    IF ~d.def THEN [raised |-> TRUE, data |-> <<>>]
    ELSE [raised |-> FALSE, data |-> LayeredData(<<>>, d.rows, 1)]

\* data[key]: a number, or undefined
Lookup(data, key) ==
    IF key \in DOMAIN data THEN [def |-> TRUE, n |-> data[key]]
    ELSE [def |-> FALSE, n |-> 0]

\* _chart.colorAccessor(function (d) { return d || 0; })
colorAccessor(d) == IF d.def /\ d.n # 0 THEN d.n ELSE 0

\* the color scale of dc.colorMixin: one color per input
colors(x) == "color(" \o ToString(x) \o ")"
\* _chart.getColor(d, i) of dc.colorMixin
getColor(d) == colors(colorAccessor(d))

\* dc.utils.nameToId on the keys of the model: lower case
nameToId(key) ==
    CASE key = "CA" -> "ca" [] key = "NV" -> "nv" [] key = "TX" -> "tx"
      [] key = "W" -> "w" [] key = "S" -> "s" [] OTHER -> key

(***************************************************************************)
(* The drawing.  svg is the sequence of layer groups <g class="layerN">,   *)
(* each with its region elements <g class="..."><path/><title/></g>.  A    *)
(* region element keeps its class tokens, the feature bound to it, the     *)
(* fill and d of its path, the handlers attached to its path (with what    *)
(* they close over) and its accented state.  A transition is taken to its  *)
(* end within the call that starts it: fill is the fill the path ends      *)
(* with, fillFrom the fill attribute the transition started from.          *)
(***************************************************************************)
\* the projection handed to projection(fn); d3.geo.path() starts with albersUsa
Projections == {"mercator"}

\* _geoPath: the path of a feature under the current projection
geoPath(proj, d) == proj \o "(" \o d.properties.name \o ")"

NoHandler == [on |-> FALSE, data |-> <<>>, layerIndex |-> 0]

\* mutant: the path is appended without a fill attribute
NewRegionNoFill(name, d) ==
    [class |-> {name}, datum |-> d, fill |-> "", fillFrom |-> "",
     d |-> geoPath(projection, d), title |-> "",
     mouseenter |-> [on |-> FALSE, data |-> <<>>, layerIndex |-> 0],
     click |-> [on |-> FALSE, data |-> <<>>, layerIndex |-> 0],
     accented |-> FALSE]

\* regionG of _doRender: g[class=name] > path[fill=white, d=_geoPath], title
NewRegion(name, d) ==
    [class |-> {name}, datum |-> d, fill |-> "white", fillFrom |-> "",
     d |-> geoPath(projection, d), title |-> "",
     mouseenter |-> NoHandler, click |-> NoHandler, accented |-> FALSE]

NewGroup(layerIndex) ==
    [class |-> "layer" \o ToString(layerIndex),
     regions |-> [i \in DOMAIN geoJson(layerIndex).data |->
                     NewRegion(geoJson(layerIndex).name,
                               geoJson(layerIndex).data[i])]]

\* positions <<g, r>> of the region elements of a drawing
Positions(s) == UNION {{<<g, r>> : r \in DOMAIN s[g].regions} : g \in DOMAIN s}
Region(s, p) == s[p[1]].regions[p[2]]

\* a drawing with every region element e at position p replaced by F(p, e)
MapRegions(s, F(_, _)) ==
    [g \in DOMAIN s |->
        [s[g] EXCEPT !.regions = [r \in DOMAIN @ |-> F(<<g, r>>, @[r])]]]

\* function layerSelector (layerIndex): 'g.layer<N> g.<name>'
layerSelector(layerIndex) ==
    [group |-> "layer" \o ToString(layerIndex),
     class |-> geoJson(layerIndex).name]

\* selectAll(selector) for a selector 'g.<group> g.<class>'
Select(s, sel) ==
    {p \in Positions(s) : /\ s[p[1]].class = sel.group
                          /\ sel.class \in Region(s, p).class}

\* selectAll('g.<class>') over the whole chart
SelectAll(s, class) == {p \in Positions(s) : class \in Region(s, p).class}

(***************************************************************************)
(* function renderRegionG (layerIndex): the regions under layerSelector    *)
(* get the class "<layer name> <region id>[ selected][ deselected]".       *)
(* Calling a keyAccessor that is not a function throws at the first        *)
(* region: in classed() when a filter is active, else in attr('class').    *)
(***************************************************************************)
\* mutant: deselected is every region that is not selected, filter or not
RegionClassNotSelected(layerIndex, d) ==
    {geoJson(layerIndex).name, nameToId(getKey(layerIndex, d))}
        \cup (IF Truthy(isSelected(layerIndex, d)) THEN {"selected"}
              ELSE {"deselected"})

RegionClass(layerIndex, d) ==
    {geoJson(layerIndex).name, nameToId(getKey(layerIndex, d))}
        \cup (IF Truthy(isSelected(layerIndex, d)) THEN {"selected"} ELSE {})
        \cup (IF Truthy(isDeselected(layerIndex, d)) THEN {"deselected"} ELSE {})

renderRegionG(s, layerIndex) ==
    LET sel == Select(s, layerSelector(layerIndex))
    IN  IF sel # {} /\ ~Callable(geoJson(layerIndex).keyAccessor)
        THEN [raised |-> TRUE, sel |-> sel,
              svg |-> IF Truthy(hasFilter) THEN s
                      ELSE MapRegions(s, LAMBDA p, e :
                               IF p \in sel
                               THEN [e EXCEPT !.class = @ \ {"selected", "deselected"}]
                               ELSE e)]
        ELSE [raised |-> FALSE, sel |-> sel,
              svg |-> MapRegions(s, LAMBDA p, e :
                          IF p \in sel
                          THEN [e EXCEPT !.class = RegionClass(layerIndex, e.datum)]
                          ELSE e)]

(***************************************************************************)
(* function renderPaths (regionG, layerIndex, data): the path of every     *)
(* region of regionG keeps its fill attribute, or gets '#e2e2e2' when it   *)
(* has none, gets the pointer and click handlers, and is taken by a        *)
(* transition to getColor(data[keyAccessor(d)]).                           *)
(***************************************************************************)
StartFill(currentFill) == IF currentFill # "" THEN currentFill ELSE "#e2e2e2"

renderPaths(s, regionG, layerIndex, data) ==
    MapRegions(s, LAMBDA p, e :
        IF p \in regionG
        THEN [e EXCEPT
                !.fillFrom = StartFill(e.fill),
                !.mouseenter = [on |-> TRUE, data |-> data, layerIndex |-> 0],
                !.click = [on |-> TRUE, data |-> <<>>, layerIndex |-> layerIndex],
                !.fill = getColor(Lookup(data, getKey(layerIndex, e.datum)))]
        ELSE e)

\* function isDataLayer (layerIndex)
isDataLayer(layerIndex) == TruthyAccessor(geoJson(layerIndex).keyAccessor)

\* function plotData (layerIndex, d)
plotData(s, layerIndex, d) ==
    LET j == generateLayeredData(d)
    IN  IF j.raised THEN [raised |-> TRUE, svg |-> s]
        ELSE IF ~isDataLayer(layerIndex) THEN [raised |-> FALSE, svg |-> s]
        ELSE LET g == renderRegionG(s, layerIndex)
             IN  IF g.raised THEN [raised |-> TRUE, svg |-> g.svg]
                 ELSE [raised |-> FALSE,
                       svg |-> renderPaths(g.svg, g.sel, layerIndex, j.data)]

(***************************************************************************)
(* _chart._doRender = function (d): the svg is reset, then layer after     *)
(* layer gets its group and regions and has its data plotted.              *)
(***************************************************************************)
RECURSIVE RenderLayers(_, _, _)
RenderLayers(s, layerIndex, d) ==
    IF layerIndex >= Length THEN [raised |-> FALSE, svg |-> s]
    ELSE LET r == plotData(Append(s, NewGroup(layerIndex)), layerIndex, d)
         IN  IF r.raised THEN r ELSE RenderLayers(r.svg, layerIndex + 1, d)

\* mutant: the svg is not reset before the layers are drawn
RenderNoReset(op, d) ==
    /\ Counted
    /\ LET r == RenderLayers(svg, 0, d)
       IN  /\ svg' = r.svg
           /\ pathCalls' = Positions(r.svg)
           /\ lastCall' = Call(op, r.raised)
           /\ IF r.raised
              THEN UNCHANGED <<_projectionFlag, _hasBeenRendered, currentJoin>>
              ELSE /\ _projectionFlag' = "false"
                   /\ _hasBeenRendered' = TRUE
                   /\ currentJoin' = generateLayeredData(d).data
           /\ UNCHANGED <<objs, arrays, _geoJsons, held, _useMap, projection,
                          popup, _filters, _filtersInverse>>

Render(op, d) ==
    /\ Counted
    /\ LET r == RenderLayers(<<>>, 0, d)
       IN  /\ svg' = r.svg
           /\ pathCalls' = Positions(r.svg)
           /\ lastCall' = Call(op, r.raised)
           /\ IF r.raised
              THEN UNCHANGED <<_projectionFlag, _hasBeenRendered, currentJoin>>
              ELSE /\ _projectionFlag' = "false"
                   /\ _hasBeenRendered' = TRUE
                   /\ currentJoin' = generateLayeredData(d).data
           /\ UNCHANGED <<objs, arrays, _geoJsons, held, _useMap, projection,
                          popup, _filters, _filtersInverse>>

_doRender(d) == Render("render", d)

(***************************************************************************)
(* _chart._doRedraw = function (data): before the first render it returns  *)
(* _chart._doRender(), called without an argument; afterwards every layer  *)
(* has its data plotted and, when _projectionFlag is set, the paths under  *)
(* 'g.<name> path' get their d from _geoPath again.                        *)
(***************************************************************************)
RedrawPaths(s, layerIndex) ==
    MapRegions(s, LAMBDA p, e :
        IF p \in SelectAll(s, geoJson(layerIndex).name)
        THEN [e EXCEPT !.d = geoPath(projection, e.datum)]
        ELSE e)

RECURSIVE RedrawLayers(_, _, _, _)
RedrawLayers(s, paths, layerIndex, data) ==
    IF layerIndex >= Length THEN [raised |-> FALSE, svg |-> s, paths |-> paths]
    ELSE LET r == plotData(s, layerIndex, data)
         IN  IF r.raised THEN [raised |-> TRUE, svg |-> r.svg, paths |-> paths]
             ELSE IF _projectionFlag = "true"
             THEN RedrawLayers(RedrawPaths(r.svg, layerIndex),
                               paths \cup SelectAll(r.svg, geoJson(layerIndex).name),
                               layerIndex + 1, data)
             ELSE RedrawLayers(r.svg, paths, layerIndex + 1, data)

\* mutant: every redraw is handed to the full render
_doRedrawAlwaysRender(data) == Render("redraw", data)

_doRedraw(data) ==
    IF ~_hasBeenRendered
    THEN Render("redraw", NoRows)
    ELSE LET r == RedrawLayers(svg, {}, 0, data)
         IN  /\ Counted
             /\ svg' = r.svg
             /\ pathCalls' = r.paths
             /\ lastCall' = Call("redraw", r.raised)
             /\ IF r.raised
                THEN UNCHANGED <<_projectionFlag, currentJoin>>
                ELSE /\ _projectionFlag' = "false"
                     /\ currentJoin' = generateLayeredData(data).data
             /\ UNCHANGED <<objs, arrays, _geoJsons, held, _hasBeenRendered,
                            _useMap, projection, popup, _filters,
                            _filtersInverse>>

(***************************************************************************)
(* _chart.projection = function (projection)                               *)
(***************************************************************************)
\* mutant: the projection is set without looking at _useMap
setProjectionAnyMode(fn) ==
    /\ Counted
    /\ projection' = fn
    /\ _projectionFlag' = "true"
    /\ lastCall' = Call("projection", FALSE)
    /\ pathCalls' = {}
    /\ UNCHANGED <<objs, arrays, _geoJsons, held, _hasBeenRendered, _useMap,
                   svg, popup, _filters, _filtersInverse, currentJoin>>

\* mutant: the projection is replaced and the flag is left alone
setProjectionNoFlag(fn) ==
    /\ Counted
    /\ IF ~_useMap
       THEN /\ projection' = fn
            /\ UNCHANGED _projectionFlag
       ELSE UNCHANGED <<projection, _projectionFlag>>
    /\ lastCall' = Call("projection", FALSE)
    /\ pathCalls' = {}
    /\ UNCHANGED <<objs, arrays, _geoJsons, held, _hasBeenRendered, _useMap,
                   svg, popup, _filters, _filtersInverse, currentJoin>>

setProjection(fn) ==
    /\ Counted
    /\ IF ~_useMap
       THEN /\ projection' = fn
            /\ _projectionFlag' = "true"
       ELSE UNCHANGED <<projection, _projectionFlag>>
    /\ lastCall' = Call("projection", FALSE)
    /\ pathCalls' = {}
    /\ UNCHANGED <<objs, arrays, _geoJsons, held, _hasBeenRendered, _useMap,
                   svg, popup, _filters, _filtersInverse, currentJoin>>

(***************************************************************************)
(* function accentPoly(label) / unAccentPoly(label): every element under   *)
(* 'g.<name of layer 0>' whose key under layer 0's keyAccessor == label is *)
(* handed to accentSelected / unAccentSelected (dc.baseMixin), which set   *)
(* and clear its accented state.  geoJson(0).name throws on an empty       *)
(* registry, getKey(0, d) throws when layer 0 has no callable keyAccessor. *)
(***************************************************************************)
\* mutant: every g element is visited, whatever its class
AccentedAnyLayer(s, label, state) ==
    MapRegions(s, LAMBDA p, e :
        IF getKey(0, e.datum) = label
        THEN [e EXCEPT !.accented = state]
        ELSE e)

Accented(s, label, state) ==
    MapRegions(s, LAMBDA p, e :
        IF p \in SelectAll(s, geoJson(0).name) /\ getKey(0, e.datum) = label
        THEN [e EXCEPT !.accented = state]
        ELSE e)

AccentRaises ==
    \/ ~HasLayer(0)
    \/ /\ SelectAll(svg, geoJson(0).name) # {}
       /\ ~Callable(geoJson(0).keyAccessor)

accentPoly(label) ==
    /\ Counted
    /\ svg' = IF AccentRaises THEN svg ELSE Accented(svg, label, TRUE)
    /\ lastCall' = Call("accent", AccentRaises)
    /\ pathCalls' = {}
    /\ UNCHANGED <<objs, arrays, _geoJsons, held, _hasBeenRendered,
                   _projectionFlag, _useMap, projection, popup, _filters,
                   _filtersInverse, currentJoin>>

unAccentPoly(label) ==
    /\ Counted
    /\ svg' = IF AccentRaises THEN svg ELSE Accented(svg, label, FALSE)
    /\ lastCall' = Call("unAccent", AccentRaises)
    /\ pathCalls' = {}
    /\ UNCHANGED <<objs, arrays, _geoJsons, held, _hasBeenRendered,
                   _projectionFlag, _useMap, projection, popup, _filters,
                   _filtersInverse, currentJoin>>

(***************************************************************************)
(* The click handler of a region's path, attached by renderPaths with the  *)
(* layerIndex of that pass: _chart.onClick(d, layerIndex) hands the key    *)
(* under geoJson(layerIndex).keyAccessor to handleFilterClick.             *)
(***************************************************************************)
OnClickRaises(d, layerIndex) ==
    \/ ~HasLayer(layerIndex)
    \/ ~Callable(geoJson(layerIndex).keyAccessor)

onClick(g, r) ==
    /\ Counted
    /\ <<g, r>> \in Positions(svg)
    /\ svg[g].regions[r].click.on
    /\ LET d == svg[g].regions[r].datum
           layerIndex == svg[g].regions[r].click.layerIndex
       IN  IF OnClickRaises(d, layerIndex)
           THEN /\ lastCall' = Call("click", TRUE)
                /\ UNCHANGED _filters
           ELSE LET selectedRegion == getKey(layerIndex, d)
                IN  /\ Cardinality(handleFilterClick(selectedRegion)) <= MaxFilters
                    /\ _filters' = handleFilterClick(selectedRegion)
                    /\ lastCall' = Call("click", FALSE)
    /\ pathCalls' = {}
    /\ UNCHANGED <<objs, arrays, _geoJsons, held, _hasBeenRendered,
                   _projectionFlag, _useMap, projection, svg, popup,
                   _filtersInverse, currentJoin>>

\* _chart.filtersInverse(flag) of the filter collaborator
setFiltersInverse(flag) ==
    /\ Counted
    /\ _filtersInverse' = flag
    /\ lastCall' = Call("filtersInverse", FALSE)
    /\ pathCalls' = {}
    /\ UNCHANGED <<objs, arrays, _geoJsons, held, _hasBeenRendered,
                   _projectionFlag, _useMap, projection, svg, popup, _filters,
                   currentJoin>>

(***************************************************************************)
(* function showPopup(d, i, data), the mouseenter handler of a region's    *)
(* path; data is the lookup of the pass that attached the handler.  The    *)
(* popup content is emptied, then the swatch and the key/value block are   *)
(* built with layer 0's keyAccessor, then the popup is shown.              *)
(***************************************************************************)
\* isNaN(x) ? 'N/A' : Number(x).toFixed(2)
PopupValue(x) == IF ~x.def THEN "N/A" ELSE ToString(x.n) \o ".00"

ShowPopupRaises == ~HasLayer(0) \/ ~Callable(geoJson(0).keyAccessor)

showPopup(g, r) ==
    /\ Counted
    /\ <<g, r>> \in Positions(svg)
    /\ svg[g].regions[r].mouseenter.on
    /\ LET d == svg[g].regions[r].datum
           data == svg[g].regions[r].mouseenter.data
       IN  IF ShowPopupRaises
           THEN /\ popup' = [popup EXCEPT !.swatch = "", !.key = "", !.value = ""]
                /\ lastCall' = Call("mouseenter", TRUE)
           ELSE LET key == getKey(0, d)
                IN  /\ popup' = [visible |-> TRUE,
                                 swatch |-> getColor(Lookup(data, key)),
                                 key |-> key,
                                 value |-> PopupValue(Lookup(data, key))]
                    /\ lastCall' = Call("mouseenter", FALSE)
    /\ pathCalls' = {}
    /\ UNCHANGED <<objs, arrays, _geoJsons, held, _hasBeenRendered,
                   _projectionFlag, _useMap, projection, svg, _filters,
                   _filtersInverse, currentJoin>>

\* function hidePopup(), the mouseleave handler of a region's path
hidePopup(g, r) ==
    /\ Counted
    /\ <<g, r>> \in Positions(svg)
    /\ svg[g].regions[r].mouseenter.on
    /\ popup' = [popup EXCEPT !.visible = FALSE]
    /\ lastCall' = Call("mouseleave", FALSE)
    /\ pathCalls' = {}
    /\ UNCHANGED <<objs, arrays, _geoJsons, held, _hasBeenRendered,
                   _projectionFlag, _useMap, projection, svg, _filters,
                   _filtersInverse, currentJoin>>

(***************************************************************************)
(* _chart.fitBounds = function (): with a layer 0, its bounds are handed   *)
(* to _chart.map().fitBounds; _chart.map exists in map mode only.          *)
(***************************************************************************)
fitBounds ==
    /\ Counted
    /\ lastCall' = IF ~HasLayer(0) THEN Call("fitBounds", FALSE)
                   ELSE IF ~_useMap THEN Call("fitBounds", TRUE)
                   ELSE CallOut("fitBounds", geoJson(0).bounds)
    /\ pathCalls' = {}
    /\ UNCHANGED <<objs, arrays, _geoJsons, held, _hasBeenRendered,
                   _projectionFlag, _useMap, projection, svg, popup, _filters,
                   _filtersInverse, currentJoin>>

(***************************************************************************)
(* dc.geoChoroplethChart = function (parent, useMap, chartGroup, mapbox)   *)
(***************************************************************************)
\* the keys of the features, and the labels handed to accent / unAccent
Keys == {"CA", "NV", "TX", "W", "S"}
Labels == {"CA", "W"}
MaxLayers == Cardinality(LayerNames)
MaxRegions == Max({Len(o.json) : o \in Overlays})

InitWith(rows) ==
    /\ group = rows
    /\ objs = [o \in ObjIds |-> NoLayer]
    /\ arrays = [a \in ArrayIds |-> <<>>]
    /\ _geoJsons = 1
    /\ held = 0
    /\ _hasBeenRendered = FALSE
    /\ _projectionFlag = "undefined"
    /\ _useMap \in BOOLEAN
    /\ projection = IF _useMap THEN "mapProject" ELSE "albersUsa"
    /\ svg = <<>>
    /\ popup = [visible |-> FALSE, swatch |-> "", key |-> "", value |-> ""]
    /\ _filters = {}
    /\ _filtersInverse = FALSE
    /\ currentJoin = <<>>
    /\ pathCalls = {}
    /\ lastCall = Call("new", FALSE)
    /\ calls = 0

\* the chart whose rows come with the calls of render and redraw
Init == InitWith(<<>>)

Next ==
    \/ \E o \in Overlays : overlayGeoJson(o.json, o.name, o.keyAccessor)
    \/ \E name \in LayerNames : removeGeoJson(name)
    \/ geoJsons
    \/ heldPop
    \/ \E rows \in Rows : _doRender(Defined(rows))
    \/ \E rows \in Rows : _doRedraw(Defined(rows))
    \/ \E fn \in Projections : setProjection(fn)
    \/ \E label \in Labels : accentPoly(label)
    \/ \E label \in Labels : unAccentPoly(label)
    \/ \E g \in 1..MaxLayers, r \in 1..MaxRegions : onClick(g, r)
    \/ \E flag \in BOOLEAN : setFiltersInverse(flag)
    \/ \E g \in 1..MaxLayers, r \in 1..MaxRegions : showPopup(g, r)
    \/ \E g \in 1..MaxLayers, r \in 1..MaxRegions : hidePopup(g, r)
    \/ fitBounds

Spec == Init /\ [][Next]_vars

(***************************************************************************)
(* The chart under the calls of one concern at a time: overlayGeoJson,     *)
(* removeGeoJson and the render pass are in every relation, next to the    *)
(* operations of the concern.                                              *)
(***************************************************************************)
\* the layer registry and the array geoJsons() hands out
NextRegistry ==
    \/ \E o \in Overlays : overlayGeoJson(o.json, o.name, o.keyAccessor)
    \/ \E name \in LayerNames : removeGeoJson(name)
    \/ geoJsons
    \/ heldPop

SpecRegistry == Init /\ [][NextRegistry]_vars

\* the bounds of the layers and fitBounds
NextBounds ==
    \/ \E o \in Overlays : overlayGeoJson(o.json, o.name, o.keyAccessor)
    \/ \E name \in LayerNames : removeGeoJson(name)
    \/ fitBounds

SpecBounds == Init /\ [][NextBounds]_vars

\* the bounds computation on feature collections of every shape: a layer is
\* registered on the empty registry, which is when its bounds are computed
NextGeometry ==
    \/ \E json \in GeoJsons : Length = 0 /\ overlayGeoJson(json, "state", "name")
    \/ \E name \in LayerNames : removeGeoJson(name)
    \/ fitBounds

SpecGeometry == Init /\ [][NextGeometry]_vars

\* layers registered with a keyAccessor that is no function
NextAccessor ==
    \/ \E o \in Overlays \cup BadAccessorOverlays :
          overlayGeoJson(o.json, o.name, o.keyAccessor)
    \/ \E rows \in Rows : _doRender(Defined(rows))
    \/ \E rows \in Rows : _doRedraw(Defined(rows))
    \/ \E g \in 1..MaxLayers, r \in 1..MaxRegions : onClick(g, r)
    \/ \E g \in 1..MaxLayers, r \in 1..MaxRegions : showPopup(g, r)

SpecAccessor == Init /\ [][NextAccessor]_vars

\* the render state under the calls and events that could touch it, with
\* the layers keyed by name
NextLifecycle ==
    \/ \E o \in {x \in Overlays : x.keyAccessor = "name"} :
          overlayGeoJson(o.json, o.name, o.keyAccessor)
    \/ \E name \in LayerNames : removeGeoJson(name)
    \/ \E rows \in Rows : _doRender(Defined(rows))
    \/ \E rows \in Rows : _doRedraw(Defined(rows))
    \/ \E fn \in Projections : setProjection(fn)
    \/ \E label \in Labels : accentPoly(label)
    \/ \E g \in 1..MaxLayers, r \in 1..MaxRegions : onClick(g, r)
    \/ \E g \in 1..MaxLayers, r \in 1..MaxRegions : showPopup(g, r)

SpecLifecycle == Init /\ [][NextLifecycle]_vars

\* the join of the rows the aggregation engine holds, which the chart is
\* rendered and redrawn with
NextJoin ==
    \/ overlayGeoJson(JsonStates, "state", "name")
    \/ _doRender(Defined(group))
    \/ _doRedraw(Defined(group))

SpecJoin == (\E rows \in JoinRows : InitWith(rows)) /\ [][NextJoin]_vars

\* render, redraw and the projection
NextRender ==
    \/ \E o \in Overlays : overlayGeoJson(o.json, o.name, o.keyAccessor)
    \/ \E name \in LayerNames : removeGeoJson(name)
    \/ \E rows \in Rows : _doRender(Defined(rows))
    \/ \E rows \in Rows : _doRedraw(Defined(rows))
    \/ \E fn \in Projections : setProjection(fn)

SpecRender == Init /\ [][NextRender]_vars

\* the filter collaborator and the pointer handlers
NextPointer ==
    \/ \E o \in Overlays : overlayGeoJson(o.json, o.name, o.keyAccessor)
    \/ \E name \in LayerNames : removeGeoJson(name)
    \/ \E rows \in Rows : _doRender(Defined(rows))
    \/ \E rows \in Rows : _doRedraw(Defined(rows))
    \/ \E g \in 1..MaxLayers, r \in 1..MaxRegions : onClick(g, r)
    \/ \E flag \in BOOLEAN : setFiltersInverse(flag)
    \/ \E g \in 1..MaxLayers, r \in 1..MaxRegions : showPopup(g, r)
    \/ \E g \in 1..MaxLayers, r \in 1..MaxRegions : hidePopup(g, r)

SpecPointer == Init /\ [][NextPointer]_vars

\* the filter collaborator alone
NextFilter ==
    \/ \E o \in Overlays : overlayGeoJson(o.json, o.name, o.keyAccessor)
    \/ \E rows \in Rows : _doRender(Defined(rows))
    \/ \E rows \in Rows : _doRedraw(Defined(rows))
    \/ \E g \in 1..MaxLayers, r \in 1..MaxRegions : onClick(g, r)
    \/ \E flag \in BOOLEAN : setFiltersInverse(flag)

SpecFilter == Init /\ [][NextFilter]_vars

\* accent and unAccent
NextAccent ==
    \/ \E o \in Overlays : overlayGeoJson(o.json, o.name, o.keyAccessor)
    \/ \E name \in LayerNames : removeGeoJson(name)
    \/ \E rows \in Rows : _doRender(Defined(rows))
    \/ \E rows \in Rows : _doRedraw(Defined(rows))
    \/ \E label \in Labels : accentPoly(label)
    \/ \E label \in Labels : unAccentPoly(label)

SpecAccent == Init /\ [][NextAccent]_vars

(***************************************************************************)
(* The registry: names, order, replacement, removal, the array handed out  *)
(***************************************************************************)
NamesOf(reg) == [i \in DOMAIN reg |-> reg[i].name]
Distinct(seq) == \A i, j \in DOMAIN seq : i # j => seq[i] # seq[j]

\* C1: after every overlayGeoJson / removeGeoJson the names of the registry
\* are pairwise distinct; a new name is appended after the names already
\* there, a removal keeps the remaining names in their order, and
\* overlayGeoJson with a registered name keeps length and order and changes
\* nothing but that layer's data and keyAccessor.
C1_DistinctNamesInInsertionOrder ==
    [][ /\ Distinct(NamesOf(Registry)')
        /\ \A o \in Overlays :
             overlayGeoJson(o.json, o.name, o.keyAccessor) =>
               IF o.name \in Range(NamesOf(Registry))
               THEN /\ Len(Registry') = Len(Registry)
                    /\ \A i \in DOMAIN Registry :
                         Registry'[i] =
                           IF Registry[i].name = o.name
                           THEN [Registry[i] EXCEPT !.data = o.json,
                                                    !.keyAccessor = o.keyAccessor]
                           ELSE Registry[i]
               ELSE NamesOf(Registry)' = Append(NamesOf(Registry), o.name)
        /\ \A name \in LayerNames :
             removeGeoJson(name) =>
               NamesOf(Registry)' =
                 SelectSeq(NamesOf(Registry), LAMBDA n : n # name)
      ]_vars

\* a registered name overlaid again: the first layer has new features under
\* its old name and old bounds, and a second layer follows it
C1_Witness ==
    /\ lastCall.op = "overlayGeoJson"
    /\ Length = 2
    /\ geoJson(0).name = "state"
    /\ geoJson(0).data = JsonWest
    /\ geoJson(0).bounds = findGeomMinMax(JsonStates).bounds
    /\ geoJson(1).name = "county"

\* C6: the array a caller got from geoJsons() has the contents of the
\* registry after any later overlayGeoJson / removeGeoJson.
C6_HeldArrayIsTheRegistry ==
    held # 0 => [i \in DOMAIN arrays[held] |-> objs[arrays[held][i]]] = Registry

\* C10: removeGeoJson(name) leaves exactly the layers not called name, each
\* as it was and in the same order, and does not raise; with no layer of
\* that name the registry contents stay as they were.
C10_RemoveExactlyTheNamedLayer ==
    [][\A name \in LayerNames :
         removeGeoJson(name) =>
           /\ Registry' = SelectSeq(Registry, LAMBDA l : l.name # name)
           /\ name \notin Range(NamesOf(Registry)) => Registry' = Registry
           /\ ~lastCall'.raised
      ]_vars

\* the first of two layers removed: the second one is left, as it was
C10_Witness ==
    /\ lastCall.op = "removeGeoJson"
    /\ Length = 1
    /\ geoJson(0) = [name |-> "county", data |-> JsonWest, keyAccessor |-> "name",
                     bounds |-> findGeomMinMax(JsonWest).bounds]
    /\ held # 0
    /\ Len(arrays[held]) = 2

(***************************************************************************)
(* Render and redraw: the first redraw, the projection flag, the fills     *)
(***************************************************************************)
\* the value joined from rows for key, 0 when no row has the key
Joined(rows, key) ==
    LET at == {i \in DOMAIN rows : rows[i].key = key}
    IN  IF at = {} THEN 0 ELSE rows[Max(at)].value

\* the registered layers a region element carries the name of
LayersOf(e) == {i \in 0..(Length - 1) : geoJson(i).name \in e.class}

\* the region elements of a drawing that belong to a registered layer
RegisteredRegions(s) == {p \in Positions(s) : LayersOf(Region(s, p)) # {}}

\* a step that is the call redraw(rows)
Redraw(rows) == lastCall'.op = "redraw" /\ _doRedraw(Defined(rows))

\* C2: a redraw(rows) before any completed render does not raise, draws
\* what render(rows) draws, and leaves _hasBeenRendered true and
\* _projectionFlag false, whatever the registry holds.
C2_FirstRedrawIsARender ==
    [][\A rows \in Rows :
         (~_hasBeenRendered /\ Redraw(rows)) =>
           /\ ~lastCall'.raised
           /\ svg' = RenderLayers(<<>>, 0, Defined(rows)).svg
           /\ _hasBeenRendered'
           /\ _projectionFlag' = "false"
      ]_vars

\* the projection flag is set exactly from a projection(fn) call to the next
\* completed render / redraw
FlagTracksProjection ==
    (_projectionFlag' = "true") <=>
        \/ lastCall'.op = "projection"
        \/ /\ _projectionFlag = "true"
           /\ ~(lastCall'.op \in {"render", "redraw"} /\ ~lastCall'.raised)

\* a redraw with no projection(fn) since the last completed render / redraw
\* recomputes no path
CleanRedraw(rows) ==
    (_hasBeenRendered /\ _projectionFlag # "true" /\ Redraw(rows)) =>
        /\ pathCalls' = {}
        /\ \A p \in Positions(svg) : Region(svg', p).d = Region(svg, p).d

\* C3 as stated: in non-map mode the redraw after projection(fn) on a
\* rendered chart recomputes the path of every rendered region and clears
\* the flag, a further redraw recomputes none, and the flag is set exactly
\* between projection(fn) and the next completed render / redraw.
C3_EveryRegionRecomputed ==
    [][~_useMap =>
         /\ \A rows \in Rows :
              /\ (_hasBeenRendered /\ _projectionFlag = "true"
                    /\ Redraw(rows)) =>
                   /\ pathCalls' = Positions(svg')
                   /\ _projectionFlag' = "false"
              /\ CleanRedraw(rows)
         /\ FlagTracksProjection
      ]_vars

\* C3 amended: the redraw after projection(fn) recomputes, with the new
\* projection, the path of every rendered region that carries the name of a
\* currently registered layer, and of no other region; the rest as stated.
C3_RegisteredRegionsRecomputed ==
    [][~_useMap =>
         /\ \A rows \in Rows :
              /\ (_hasBeenRendered /\ _projectionFlag = "true"
                    /\ Redraw(rows)) =>
                   /\ pathCalls' = RegisteredRegions(svg')
                   /\ \A p \in Positions(svg') :
                        Region(svg', p).d =
                          IF p \in RegisteredRegions(svg')
                          THEN geoPath(projection, Region(svg', p).datum)
                          ELSE Region(svg, p).d
                   /\ _projectionFlag' = "false"
              /\ CleanRedraw(rows)
         /\ FlagTracksProjection
      ]_vars

\* a redraw after projection(fn) that has drawn the regions of the registered
\* layer again, with the new projection
C3_Witness ==
    /\ ~_useMap
    /\ lastCall = Call("redraw", FALSE)
    /\ _hasBeenRendered
    /\ _projectionFlag = "false"
    /\ pathCalls # {}
    /\ pathCalls = RegisteredRegions(svg)
    /\ \A p \in pathCalls :
         Region(svg, p).d = geoPath("mercator", Region(svg, p).datum)

\* C4: after a redraw(rows) on a rendered chart every region element of every
\* registered data layer has the fill color(v), v the value joined from rows
\* for the region's key under its layer's keyAccessor, color(0) without row.
C4_RedrawFillsRegisteredDataLayers ==
    [][\A rows \in Rows :
         (_hasBeenRendered /\ Redraw(rows)) =>
           \A p \in Positions(svg') :
             \A i \in LayersOf(Region(svg', p)) :
               isDataLayer(i) =>
                 Region(svg', p).fill =
                   colors(Joined(rows, getKey(i, Region(svg', p).datum)))
      ]_vars

\* the regions of the data layers without a row after a completed render
NoDataRegions ==
    {p \in Positions(svg) :
        /\ isDataLayer(p[1] - 1)
        /\ getKey(p[1] - 1, Region(svg, p).datum) \notin DOMAIN currentJoin}

\* C7 as stated: a region first drawn by render with no data for its key has
\* the fill #e2e2e2 (as its fill, or at least as the fill its transition
\* starts from).
C7_NeutralFallbackFill ==
    (lastCall = Call("render", FALSE)) =>
        \A p \in NoDataRegions :
            \/ Region(svg, p).fill = "#e2e2e2"
            \/ Region(svg, p).fillFrom = "#e2e2e2"

\* C7 amended: a region first drawn by render with no data for its key is
\* created with the fill white and taken from white to color(0); #e2e2e2 is
\* the fill of no region, and the regions of a layer without keyAccessor
\* stay white.
C7_WhiteThenColorOfZero ==
    (lastCall = Call("render", FALSE)) =>
        /\ \A p \in NoDataRegions :
              /\ Region(svg, p).fillFrom = "white"
              /\ Region(svg, p).fill = colors(0)
        /\ \A p \in Positions(svg) :
              /\ "#e2e2e2" \notin {Region(svg, p).fill, Region(svg, p).fillFrom}
              /\ ~isDataLayer(p[1] - 1) => Region(svg, p).fill = "white"

\* render([]) on a layer keyed CA and TX next to a layer without keyAccessor
C7_Witness ==
    /\ lastCall = Call("render", FALSE)
    /\ currentJoin = <<>>
    /\ \E p, q \in NoDataRegions :
         /\ Region(svg, p).datum = FeatCA
         /\ Region(svg, q).datum = FeatTX
         /\ Region(svg, p).fill = colors(0)
    /\ \E p \in Positions(svg) : ~isDataLayer(p[1] - 1)

(***************************************************************************)
(* Selection, the popup, the accent                                        *)
(***************************************************************************)
\* C5: isSelected is truthy exactly when a filter is active and hasFilter(key)
\* differs from the inverse flag, isDeselected exactly when a filter is
\* active and isSelected is not truthy: for the eight combinations of the
\* three answers, and for every key in every state of the filter.
C5_SelectedXorDeselected ==
    /\ \A hf, hfk, inv \in BOOLEAN :
         LET sel == isSelectedValue(JsBool(hf), JsBool(hfk), JsBool(inv))
             des == isDeselectedValue(JsBool(hf), JsBool(hfk), JsBool(inv))
         IN  /\ Truthy(sel) <=> (hf /\ (hfk # inv))
             /\ Truthy(des) <=> (hf /\ ~Truthy(sel))
    /\ \A key \in Keys :
         /\ Truthy(isSelectedKey(key)) <=>
              (_filters # {} /\ ((key \in _filters) # _filtersInverse))
         /\ Truthy(isDeselectedKey(key)) <=>
              (_filters # {} /\ ~Truthy(isSelectedKey(key)))
         /\ _filters = {} =>
              ~Truthy(isSelectedKey(key)) /\ ~Truthy(isDeselectedKey(key))
         /\ _filters # {} =>
              Truthy(isSelectedKey(key)) # Truthy(isDeselectedKey(key))

\* an inverted filter on CA, drawn: the region of CA is deselected and the
\* region of TX selected
C5_Witness ==
    /\ _filters = {"CA"}
    /\ _filtersInverse
    /\ lastCall = Call("redraw", FALSE)
    /\ \E p, q \in Positions(svg) :
         /\ Region(svg, p).datum = FeatCA
         /\ "deselected" \in Region(svg, p).class
         /\ "selected" \notin Region(svg, p).class
         /\ Region(svg, q).datum = FeatTX
         /\ "selected" \in Region(svg, q).class

\* C8: right after a completed render / redraw, the pointer entering a
\* region of a registered data layer does not raise; when no row has the
\* region's key the region's fill and the popup swatch are color(0) and the
\* popup value is N/A; when a row has it the value is a number.
C8_MissingRowIsZeroAndNA ==
    [][\A g \in 1..MaxLayers, r \in 1..MaxRegions :
         (/\ lastCall.op \in {"render", "redraw"}
          /\ ~lastCall.raised
          /\ showPopup(g, r)) =>
           LET e == Region(svg, <<g, r>>)
           IN  \A i \in LayersOf(e) :
                 isDataLayer(i) =>
                   /\ ~lastCall'.raised
                   /\ getKey(i, e.datum) \notin DOMAIN currentJoin =>
                        /\ e.fill = colors(0)
                        /\ popup'.swatch = colors(0)
                        /\ popup'.value = "N/A"
                   /\ getKey(i, e.datum) \in DOMAIN currentJoin =>
                        popup'.value =
                          ToString(currentJoin[getKey(i, e.datum)]) \o ".00"
      ]_vars

\* the region elements of layer 0 whose key under layer 0's keyAccessor is
\* label
Layer0Match(e, label) ==
    /\ HasLayer(0)
    /\ geoJson(0).name \in e.class
    /\ Callable(geoJson(0).keyAccessor)
    /\ ApplyAccessor(geoJson(0).keyAccessor, e.datum) = label

\* C9: accent(label) makes accented exactly the region elements of layer 0
\* whose key under layer 0's keyAccessor is label, unAccent(label) clears the
\* accent of exactly those; nothing else of any region changes.
C9_AccentExactlyLayer0Key ==
    [][\A label \in Labels :
         /\ (lastCall'.op = "accent" /\ accentPoly(label)) =>
              svg' = MapRegions(svg, LAMBDA p, e :
                        [e EXCEPT !.accented = @ \/ Layer0Match(e, label)])
         /\ (lastCall'.op = "unAccent" /\ unAccentPoly(label)) =>
              svg' = MapRegions(svg, LAMBDA p, e :
                        [e EXCEPT !.accented = @ /\ ~Layer0Match(e, label)])
      ]_vars

\* accent('W') with layer 0 keyed by region: its two regions of W are
\* accented, a region of the layer behind it is not
C9_Witness ==
    /\ lastCall = Call("accent", FALSE)
    /\ Length = 2
    /\ geoJson(0).keyAccessor = "region"
    /\ \E p, q \in SelectAll(svg, geoJson(0).name) :
         /\ p # q
         /\ Region(svg, p).accented
         /\ Region(svg, q).accented
    /\ \E x \in SelectAll(svg, geoJson(1).name) :
         /\ Region(svg, x).datum.properties.region = "W"
         /\ ~Region(svg, x).accented

(***************************************************************************)
(* The bounds of a layer                                                   *)
(***************************************************************************)
\* the bounds registered under name in a registry
BoundsOf(reg, name) ==
    {reg[i].bounds : i \in {j \in DOMAIN reg : reg[j].name = name}}

\* C11: the bounds of a layer are computed when its name is appended, from
\* the features of that call; as long as the name stays registered no call
\* changes them, overlayGeoJson with that name and other features included;
\* fitBounds hands the bounds of layer 0 to the map.
C11_BoundsComputedOnce ==
    [][ /\ \A name \in LayerNames :
             (BoundsOf(Registry, name) # {} /\ BoundsOf(Registry', name) # {}) =>
                BoundsOf(Registry', name) = BoundsOf(Registry, name)
        /\ \A o \in Overlays :
             (/\ lastCall'.op = "overlayGeoJson"
              /\ overlayGeoJson(o.json, o.name, o.keyAccessor)
              /\ BoundsOf(Registry, o.name) = {}) =>
                BoundsOf(Registry', o.name) = {findGeomMinMax(o.json).bounds}
        /\ (lastCall'.op = "fitBounds" /\ fitBounds /\ HasLayer(0) /\ _useMap) =>
                lastCall'.out = geoJson(0).bounds
      ]_vars

\* layer 0 was registered with JsonStates and overlaid with JsonWest:
\* fitBounds hands over the bounds of JsonStates, which JsonWest does not have
C11_Witness ==
    /\ lastCall.op = "fitBounds"
    /\ HasLayer(0)
    /\ geoJson(0).data = JsonWest
    /\ lastCall.out = findGeomMinMax(JsonStates).bounds
    /\ lastCall.out # findGeomMinMax(JsonWest).bounds

\* the points of the rings of the features of a collection that have
\* coordinates
PointsOf(json) ==
    UNION {UNION {Range(ring) : ring \in Range(json[d].geometry.coordinates.v)} :
              d \in {e \in DOMAIN json : json[e].geometry.coordinates.def}}

\* [[xMin, yMin], [xMax, yMax]] over a set of points, the sentinels over none
BoundsOver(points) ==
    IF points = {} THEN << <<Sentinel, Sentinel>>, <<Neg(Sentinel), Neg(Sentinel)>> >>
    ELSE << <<Num(Min({p[1] : p \in points})), Num(Min({p[2] : p \in points}))>>,
            <<Num(Max({p[1] : p \in points})), Num(Max({p[2] : p \in points}))>> >>

\* a step that appends the layer "state" with the features json
Appends(json) ==
    /\ lastCall'.op = "overlayGeoJson"
    /\ Length = 0
    /\ overlayGeoJson(json, "state", "name")

\* C12: the bounds computed for features that hold rings of points are
\* [[xMin, yMin], [xMax, yMax]], each the minimum / maximum of its axis over
\* every point of every ring of every feature, and the sentinels
\* [[9999999999999, 9999999999999], [-9999999999999, -9999999999999]] for a
\* collection without feature.
C12_BoundsAreMinMax ==
    [][\A json \in GeoJsons :
         (/\ \A d \in DOMAIN json : json[d].geometry.coordinates.def
          /\ Appends(json)) =>
            /\ ~lastCall'.raised
            /\ geoJson(0)'.bounds = [def |-> TRUE, v |-> BoundsOver(PointsOf(json))]
            /\ json = <<>> =>
                 geoJson(0)'.bounds.v =
                    << << <<SentinelHi, SentinelLo>>, <<SentinelHi, SentinelLo>> >>,
                       << <<-SentinelHi, -SentinelLo>>, <<-SentinelHi, -SentinelLo>> >> >>
      ]_vars

\* one feature with the points [0, 0] and [10, 5]: [[0, 0], [10, 5]]
C12_Witness ==
    /\ lastCall = Call("overlayGeoJson", FALSE)
    /\ Length = 1
    /\ Len(geoJson(0).data) = 1
    /\ geoJson(0).data[1].geometry.coordinates.v = << << <<0, 0>>, <<10, 5>> >> >>
    /\ geoJson(0).bounds.v = << <<Num(0), Num(0)>>, <<Num(10), Num(5)>> >>

\* C13: registering features of which one has empty or absent coordinates
\* does not raise, adds the layer, and gives it the bounds of the other
\* features (the sentinels when no feature has a point).
C13_MalformedFeatureSkipped ==
    [][\A json \in GeoJsons :
         (/\ \E d \in DOMAIN json :
                \/ ~json[d].geometry.coordinates.def
                \/ json[d].geometry.coordinates.v = <<>>
          /\ Appends(json)) =>
            /\ ~lastCall'.raised
            /\ Length' = 1
            /\ geoJson(0)'.bounds = [def |-> TRUE, v |-> BoundsOver(PointsOf(json))]
      ]_vars

(***************************************************************************)
(* The keyAccessor of a layer                                              *)
(***************************************************************************)
\* C14: overlayGeoJson with a keyAccessor that is present and not a function
\* fails and leaves the registry as it was, so that no registered layer has
\* such an accessor and no render fails for it.
C14_AccessorValidatedAtRegistration ==
    [][ /\ \A o \in BadAccessorOverlays :
             (/\ lastCall'.op = "overlayGeoJson"
              /\ overlayGeoJson(o.json, o.name, o.keyAccessor)) =>
                /\ lastCall'.raised
                /\ Registry' = Registry
        /\ \A i \in DOMAIN Registry' :
             TruthyAccessor(Registry'[i].keyAccessor) =>
                Callable(Registry'[i].keyAccessor)
        /\ lastCall'.op = "render" => ~lastCall'.raised
      ]_vars

(***************************************************************************)
(* The render state                                                        *)
(***************************************************************************)
\* the layer groups and the features their region elements were made for
Elements(s) ==
    [g \in DOMAIN s |->
        [class |-> s[g].class,
         data |-> [r \in DOMAIN s[g].regions |-> s[g].regions[r].datum]]]

\* C15: _hasBeenRendered, once true, is never false again, whatever is
\* called; it becomes true only by a completed render (the one a first
\* redraw is handed to included), and every completed render leaves it true;
\* a redraw on a rendered chart keeps the layer groups and region elements
\* that are there and makes no new one.
C15_RenderedNeverReset ==
    [][ /\ _hasBeenRendered => _hasBeenRendered'
        /\ (~_hasBeenRendered /\ _hasBeenRendered') =>
              /\ lastCall'.op \in {"render", "redraw"}
              /\ ~lastCall'.raised
        /\ (lastCall'.op = "render" /\ ~lastCall'.raised) => _hasBeenRendered'
        /\ \A rows \in Rows :
              (_hasBeenRendered /\ Redraw(rows)) => Elements(svg') = Elements(svg)
      ]_vars

\* a redraw on a rendered chart with a layer registered after the render:
\* the layer has no group in the drawing
C15_Witness ==
    /\ _hasBeenRendered
    /\ lastCall = Call("redraw", FALSE)
    /\ Len(svg) = 1
    /\ Length = 2

(***************************************************************************)
(* The join of the rows                                                    *)
(***************************************************************************)
\* C16: the join built from the rows by a render, or by a redraw of a
\* rendered chart, has exactly the keys that occur in the rows, each with the
\* value of the last row that carries it.
C16_JoinLastRowWins ==
    [][(/\ lastCall'.op \in {"render", "redraw"}
        /\ ~lastCall'.raised
        /\ \/ _doRender(Defined(group))
           \/ _hasBeenRendered /\ _doRedraw(Defined(group))) =>
          /\ DOMAIN currentJoin' = {group[i].key : i \in DOMAIN group}
          /\ \A k \in DOMAIN currentJoin' :
               LET last == Max({i \in DOMAIN group : group[i].key = k})
               IN  currentJoin'[k] = group[last].value
      ]_vars

\* the rows (CA, 1), (CA, 2), (TX, 3) rendered: {CA: 2, TX: 3}
C16_Witness ==
    /\ group = <<[key |-> "CA", value |-> 1], [key |-> "CA", value |-> 2],
                 [key |-> "TX", value |-> 3]>>
    /\ lastCall = Call("render", FALSE)
    /\ currentJoin = [k \in {"CA", "TX"} |-> IF k = "CA" THEN 2 ELSE 3]
    /\ \E p \in Positions(svg) :
         Region(svg, p).datum = FeatCA /\ Region(svg, p).fill = colors(2)

(***************************************************************************)
(* The projection in map mode                                              *)
(***************************************************************************)
\* C17: in map mode projection(fn) leaves the projection of the path
\* generator (the map's project function) and the projection flag as they
\* are; the flag is never set, and a redraw of a rendered chart computes no
\* path.
C17_MapModeProjectionIsNoOp ==
    [][_useMap =>
         /\ \A fn \in Projections :
              (lastCall'.op = "projection" /\ setProjection(fn)) =>
                 /\ projection' = projection
                 /\ projection' = "mapProject"
                 /\ _projectionFlag' = _projectionFlag
         /\ _projectionFlag' # "true"
         /\ \A rows \in Rows :
              (_hasBeenRendered /\ Redraw(rows)) =>
                 /\ pathCalls' = {}
                 /\ \A p \in Positions(svg) : Region(svg', p).d = Region(svg, p).d
      ]_vars

\* projection(fn) on a rendered chart in map mode
C17_Witness ==
    /\ _useMap
    /\ _hasBeenRendered
    /\ lastCall = Call("projection", FALSE)
    /\ projection = "mapProject"
    /\ _projectionFlag = "false"
    /\ \E p \in Positions(svg) :
         Region(svg, p).d = geoPath("mapProject", Region(svg, p).datum)

(***************************************************************************)
(* The selection classes and the handlers of a region                      *)
(***************************************************************************)
\* C18: right after a redraw of a rendered chart every region of every data
\* layer has the class selected iff isSelected(its key) and the class
\* deselected iff isDeselected(its key), on the filter as it is at that
\* redraw; no region has both, and none has either without active filter.
C18_ClassesFollowTheFilter ==
    (_hasBeenRendered /\ lastCall = Call("redraw", FALSE)) =>
        \A p \in Positions(svg) :
          \A i \in LayersOf(Region(svg, p)) :
            isDataLayer(i) =>
              LET class == Region(svg, p).class
                  key == getKey(i, Region(svg, p).datum)
              IN  /\ "selected" \in class <=> Truthy(isSelectedKey(key))
                  /\ "deselected" \in class <=> Truthy(isDeselectedKey(key))
                  /\ ~({"selected", "deselected"} \subseteq class)
                  /\ _filters = {} =>
                       class \cap {"selected", "deselected"} = {}

\* a filter on CA, not inverted, drawn: the region of CA is selected and the
\* region of TX deselected
C18_Witness ==
    /\ _filters = {"CA"}
    /\ ~_filtersInverse
    /\ _hasBeenRendered
    /\ lastCall = Call("redraw", FALSE)
    /\ \E p, q \in Positions(svg) :
         /\ Region(svg, p).datum = FeatCA
         /\ "selected" \in Region(svg, p).class
         /\ "deselected" \notin Region(svg, p).class
         /\ Region(svg, q).datum = FeatTX
         /\ "deselected" \in Region(svg, q).class
         /\ "selected" \notin Region(svg, q).class

\* C19: the pointer entering a rendered region of a registered data layer, at
\* whatever index, shows the key under that layer's keyAccessor and that
\* key's value in the most recent join; a click hands the key under that
\* layer's keyAccessor to the filter handler; neither raises.
C19_HandlersUseOwnLayerAccessor ==
    [][\A g \in 1..MaxLayers, r \in 1..MaxRegions :
         LET e == Region(svg, <<g, r>>)
         IN  /\ (lastCall'.op = "mouseenter" /\ showPopup(g, r)) =>
                  \A i \in LayersOf(e) :
                    isDataLayer(i) =>
                      /\ ~lastCall'.raised
                      /\ popup'.key = getKey(i, e.datum)
                      /\ popup'.value =
                           PopupValue(Lookup(currentJoin, getKey(i, e.datum)))
             /\ (lastCall'.op = "click" /\ onClick(g, r)) =>
                  \A i \in LayersOf(e) :
                    isDataLayer(i) =>
                      /\ ~lastCall'.raised
                      /\ _filters' = handleFilterClick(getKey(i, e.datum))
      ]_vars

(***************************************************************************)
(* A pass made twice                                                       *)
(***************************************************************************)
\* the drawing as it is shown once the transitions have ended
Shown(s) == MapRegions(s, LAMBDA p, e : [e EXCEPT !.fillFrom = ""])

\* a step that leaves the rendered state as it is
SameRendering ==
    /\ ~lastCall'.raised
    /\ Shown(svg') = Shown(svg)
    /\ currentJoin' = currentJoin
    /\ _hasBeenRendered' = _hasBeenRendered
    /\ _projectionFlag' = _projectionFlag

\* C20: a render(rows) right after a completed render(rows), and a
\* redraw(rows) right after a completed redraw(rows) of a rendered chart,
\* leave the layer groups, the region elements, their classes, fills, paths
\* and handlers, _hasBeenRendered and the projection flag as they are.
C20_RepeatedPassChangesNothing ==
    [][\A rows \in Rows :
         /\ (/\ lastCall = Call("render", FALSE)
             /\ currentJoin = generateLayeredData(Defined(rows)).data
             /\ lastCall'.op = "render"
             /\ _doRender(Defined(rows))) => SameRendering
         /\ (/\ lastCall = Call("redraw", FALSE)
             /\ _hasBeenRendered
             /\ currentJoin = generateLayeredData(Defined(rows)).data
             /\ Redraw(rows)) => SameRendering
      ]_vars

\* a redraw that found the regions of a data layer at the color it gives them
C20_Witness ==
    /\ _hasBeenRendered
    /\ lastCall = Call("redraw", FALSE)
    /\ currentJoin # <<>>
    /\ \E p \in Positions(svg) : LayersOf(Region(svg, p)) # {}
    /\ \A p \in Positions(svg) :
         \A i \in LayersOf(Region(svg, p)) :
           isDataLayer(i) =>
             /\ Region(svg, p).fillFrom = Region(svg, p).fill
             /\ Region(svg, p).fill =
                  getColor(Lookup(currentJoin, getKey(i, Region(svg, p).datum)))

====
